---- MODULE Spec2Model ----
(***************************************************************************)
(* gpasswd (src/src/gpasswd.c): administer /etc/group and /etc/gshadow.    *)
(*                                                                         *)
(* Each gpasswd process is a state machine whose program counter follows   *)
(* main(): process_flags, get_my_pwent, get_group, check_perms, the        *)
(* selected operation, open_files, update_group, close_files, exit; every  *)
(* fail_exit() call runs the rollback steps.  Strings that the code scans  *)
(* character by character (user names, comma separated lists) are          *)
(* sequences of one-character strings; group names, password fields,       *)
(* messages and exit statuses are opaque strings.                          *)
(*                                                                         *)
(* The library below gpasswd.c (groupio/sgroupio/commonio, list.c,         *)
(* getpass, pw_encrypt) is outside gpasswd.c; it is modelled from the      *)
(* design specification, sections 2, 4.3 and 6 (Record Store Adapter,      *)
(* List Algebra).  The model is the SHADOWGRP build; is_shadowgrp tells    *)
(* whether /etc/gshadow is present.                                        *)
(***************************************************************************)
EXTENDS Integers, Sequences, FiniteSets, TLC

\* ------------------------------------------------------------------ bounds
NProcs == 2
Procs == 1..NProcs

\* The number of library or system calls (open, update, close, making a lock
\* file, setuid, isatty) that fail for a reason outside gpasswd in one run.
MaxFaults == 1

\* ------------------------------------------------------- program constants
RETRIES == 3
UsernameSize == 32

\* ------------------------------------------------------------------ strings
root_name == <<"r", "o", "o", "t">>
alice == <<"a", "l", "i", "c", "e">>
bob == <<"b", "o", "b">>
eve == <<"e", "v", "e">>
NoStr == <<>>
\* A user name that fills username[32] exactly, and the same name with one
\* more character, which no user has.
longname == [i \in 1..(UsernameSize - 1) |-> "u"]
toolong == Append(longname, "u")

\* The user identity store (/etc/passwd): the names getpwnam() resolves.
PasswdNames == {root_name, alice, bob, longname}

getpwnam(name) == name \in PasswdNames

RECURSIVE Join(_)
Join(list) ==
    IF list = <<>> THEN <<>>
    ELSE IF Len(list) = 1 THEN list[1]
    ELSE list[1] \o <<",">> \o Join(Tail(list))

\* strchr (start, ','): index of the first comma at or after start, 0 if none
strchr(s, start) ==
    LET hits == {j \in start..Len(s) : s[j] = ","}
    IN IF hits = {} THEN 0 ELSE CHOOSE j \in hits : \A k \in hits : j <= k

\* The user names is_valid_user_list() looks up, in scan order: each comma
\* separated token, cut to sizeof (username) - 1 characters.
RECURSIVE ScannedUsernames(_, _)
ScannedUsernames(users, start) ==
    IF start > Len(users) THEN <<>>
    ELSE LET end == strchr(users, start)
             len0 == IF end # 0 THEN end - start ELSE Len(users) - start + 1
             next == IF end # 0 THEN end + 1 ELSE Len(users) + 1
             len == IF len0 > UsernameSize - 1 THEN UsernameSize - 1 ELSE len0
             username == SubSeq(users, start, start + len - 1)
         IN <<username>> \o ScannedUsernames(users, next)

NotExistMsg(username) == [msg |-> "user does not exist", arg |-> username]
Msg(m) == [msg |-> m, arg |-> NoStr]

\* is_valid_user_list: .valid is the return value, .out the messages printed
is_valid_user_list(users) ==
    LET names == ScannedUsernames(users, 1)
        missing == SelectSeq(names, LAMBDA n : ~getpwnam(n))
    IN [valid |-> missing = <<>>,
        out |-> [i \in 1..Len(missing) |-> NotExistMsg(missing[i])]]

\* ------------------------------------------------------------ list algebra
is_on_list(list, member) == \E i \in 1..Len(list) : list[i] = member

add_list(list, member) ==
    IF is_on_list(list, member) THEN list ELSE Append(list, member)

del_list(list, member) == SelectSeq(list, LAMBDA m : m # member)

dup_list(list) == [i \in 1..Len(list) |-> list[i]]

RECURSIVE SplitCommas(_, _)
SplitCommas(s, start) ==
    LET end == strchr(s, start)
        stop == IF end # 0 THEN end - 1 ELSE Len(s)
        len == IF stop - start + 1 > UsernameSize - 1
               THEN UsernameSize - 1 ELSE stop - start + 1
        token == SubSeq(s, start, start + len - 1)
    IN IF end = 0 THEN <<token>> ELSE <<token>> \o SplitCommas(s, end + 1)

comma_to_list(comma) == IF comma = <<>> THEN <<>> ELSE SplitCommas(comma, 1)

\* ------------------------------------------------------------------ records
NULL == [null |-> TRUE]

GroupRec(name, passwd, mem) ==
    [gr_name |-> name, gr_passwd |-> passwd, gr_mem |-> mem]

ShadowRec(name, passwd, adm, mem) ==
    [sg_name |-> name, sg_passwd |-> passwd, sg_adm |-> adm, sg_mem |-> mem]

SHADOW_PASSWD_STRING == "x"

\* A database file is the set of its entries, one per name.
gr_locate(db, name) ==
    IF \E r \in db : r.gr_name = name
    THEN CHOOSE r \in db : r.gr_name = name ELSE NULL

sgr_locate(db, name) ==
    IF \E r \in db : r.sg_name = name
    THEN CHOOSE r \in db : r.sg_name = name ELSE NULL

gr_update(db, gr) == {r \in db : r.gr_name # gr.gr_name} \cup {gr}

sgr_update(db, sg) == {r \in db : r.sg_name # sg.sg_name} \cup {sg}

\* pw_encrypt (pass, crypt_make_salt ()): a one-way hash, never the plaintext
pw_encrypt(pass) == IF pass = "pw1" THEN "hash1" ELSE "hash2"

\* ------------------------------------------------------------------- inputs
Opt(f, arg) == [flag |-> f, optarg |-> arg]

Callers ==
    { [bywho |-> 0, pw_name |-> root_name],
      [bywho |-> 1000, pw_name |-> alice],
      [bywho |-> 1000, pw_name |-> bob],
      [bywho |-> 1000, pw_name |-> NoStr] }

CommandLines ==
    { <<>>,
      <<Opt("r", NoStr)>>, <<Opt("R", NoStr)>>,
      <<Opt("a", alice)>>, <<Opt("a", bob)>>, <<Opt("a", eve)>>,
      <<Opt("d", alice)>>, <<Opt("d", bob)>>,
      <<Opt("A", alice)>>, <<Opt("A", Join(<<bob, alice>>))>>,
      <<Opt("A", Join(<<eve, alice, eve>>))>>,
      <<Opt("M", bob)>>, <<Opt("M", Join(<<alice, bob>>))>>,
      <<Opt("M", Join(<<alice, eve>>))>>,
      <<Opt("A", bob), Opt("M", alice)>>,
      <<Opt("M", alice), Opt("A", bob)>>,
      <<Opt("r", NoStr), Opt("R", NoStr)>>,
      <<Opt("a", eve), Opt("M", bob)>>,
      <<Opt("g", NoStr), Opt("d", alice)>>,
      <<Opt("?", NoStr)>>,
      <<Opt("a", longname)>>, <<Opt("a", toolong)>>,
      <<Opt("M", Join(<<alice, toolong>>))>>,
      <<Opt("A", Join(<<toolong, eve>>))>>,
      <<Opt("M", Append(alice, ","))>>,
      <<Opt("A", Append(bob, ","))>> }

Invocations ==
    {[opts |-> c, operands |-> <<"eng">>] : c \in CommandLines}
        \cup {[opts |-> <<Opt("r", NoStr)>>, operands |-> <<>>]}

\* What is typed at the password prompts: a match in round 1, 2 or 3, three
\* mismatches (a fourth round would match), end of input at either prompt.
TypedLines ==
    { <<"pw1", "pw1">>,
      <<"pw1", "pw2", "pw2", "pw2">>,
      <<"pw1", "pw2", "pw2", "pw1", "pw1", "pw1">>,
      <<"pw1", "pw2", "pw2", "pw1", "pw1", "pw2", "pw2", "pw2">>,
      <<>>,
      <<"pw1", "pw2", "pw1">> }

MemberLists == {<<>>, <<alice>>, <<alice, bob>>, <<bob, alice>>}
AdminLists == {<<>>, <<alice>>, <<bob>>}

OtherGroup == GroupRec("ops", "x", <<bob>>)
OtherShadow == ShadowRec("ops", "s1", <<bob>>, <<bob>>)

GroupFiles ==
    {{OtherGroup}}
        \cup {{OtherGroup, GroupRec("eng", "h0", m)} : m \in MemberLists}

GshadowFiles ==
    {{OtherShadow}}
        \cup {{OtherShadow, ShadowRec("eng", "s0", a, m)} :
                 a \in AdminLists, m \in MemberLists}

\* ---------------------------------------------------------------- variables
VARIABLES
    is_shadowgrp,            \* /etc/gshadow is present (sgr_file_present ())
    first_member_is_admin,   \* the build defines FIRST_MEMBER_IS_ADMIN
    group_file0,             \* history: /etc/group before any process ran
    gshadow_file0,           \* history: /etc/gshadow before any process ran
    group_file,              \* /etc/group on disk
    gshadow_file,            \* /etc/gshadow on disk
    gr_lock_holders,         \* the processes holding the /etc/group lock
    sgr_lock_holders,        \* the processes holding the /etc/gshadow lock
    pc,                      \* where each process is in main ()
    bywho, pw_name,          \* getuid (); the name get_my_pwent () gives
    argv,                    \* the options and operands of the command line
    stdin,                   \* the lines still to be typed at the terminal
    faults,                  \* library calls the environment may still fail
    flags,                   \* aflg .. Rflg, user, members, admins
    group, myname,
    group_locked, gshadow_locked,
    grent, sgent,            \* the in-memory record pair
    gr_db, sgr_db,           \* the open database handles (NULL when closed)
    retries, pass,           \* change_passwd: round counter, plaintext buffer
    tty, sgtty,              \* terminal mode; the mode catch_signals (0) saved
    handlers,                \* catch_signals is installed
    status, out,             \* exit status; messages printed, in order
    trace                    \* library calls made so far, in order

envVars ==
    <<is_shadowgrp, first_member_is_admin, group_file0, gshadow_file0>>
inputVars == <<bywho, pw_name, argv>>
fileVars == <<group_file, gshadow_file>>
lockVars == <<gr_lock_holders, sgr_lock_holders>>
flagVars == <<flags, group, myname>>
lockedVars == <<group_locked, gshadow_locked>>
entVars == <<grent, sgent>>
dbVars == <<gr_db, sgr_db>>
passVars == <<retries, pass>>
ttyVars == <<tty, sgtty, handlers>>

vars == <<envVars, inputVars, stdin, faults, fileVars, lockVars, pc, flagVars,
          lockedVars, entVars, dbVars, passVars, ttyVars, status, out, trace>>

amroot(p) == 0 = bywho[p]

NoFlags ==
    [aflg |-> FALSE, Aflg |-> FALSE, dflg |-> FALSE, Mflg |-> FALSE,
     rflg |-> FALSE, Rflg |-> FALSE,
     user |-> NoStr, members |-> NoStr, admins |-> NoStr]

\* What every process starts with (the static initialisers of gpasswd.c).
InitLocals ==
    /\ flags = [p \in Procs |-> NoFlags]
    /\ group = [p \in Procs |-> ""]
    /\ myname = [p \in Procs |-> NoStr]
    /\ group_locked = [p \in Procs |-> FALSE]
    /\ gshadow_locked = [p \in Procs |-> FALSE]
    /\ grent = [p \in Procs |-> NULL]
    /\ sgent = [p \in Procs |-> NULL]
    /\ gr_db = [p \in Procs |-> NULL]
    /\ sgr_db = [p \in Procs |-> NULL]
    /\ retries = [p \in Procs |-> 0]
    /\ pass = [p \in Procs |-> ""]
    /\ tty = [p \in Procs |-> "echo"]
    /\ sgtty = [p \in Procs |-> "unset"]
    /\ handlers = [p \in Procs |-> FALSE]
    /\ status = [p \in Procs |-> ""]
    /\ out = [p \in Procs |-> <<>>]
    /\ trace = [p \in Procs |-> <<>>]
    /\ gr_lock_holders = {}
    /\ sgr_lock_holders = {}
    /\ group_file0 = group_file
    /\ gshadow_file0 = gshadow_file

\* One gpasswd process (process 1) run on every database content, by every
\* caller, with every command line; the other processes never start.
Init ==
    /\ is_shadowgrp \in BOOLEAN
    /\ first_member_is_admin \in BOOLEAN
    /\ group_file \in GroupFiles
    /\ gshadow_file \in IF is_shadowgrp THEN GshadowFiles ELSE {{}}
    /\ \E c \in Callers, i \in Invocations, t \in TypedLines :
          /\ bywho = [p \in Procs |-> c.bywho]
          /\ pw_name = [p \in Procs |-> c.pw_name]
          /\ argv = [p \in Procs |-> i]
          /\ stdin = [p \in Procs |-> IF i.opts = <<>> THEN t ELSE <<>>]
    /\ faults = MaxFaults
    /\ pc = [p \in Procs |-> IF p = 1 THEN "process_flags" ELSE "idle"]
    /\ InitLocals

\* ------------------------------------------------------------ control flow
\* The results a call that can fail for an outside reason may have.
Results == IF faults > 0 THEN BOOLEAN ELSE {TRUE}
Inject(ok) == faults' = IF ok THEN faults ELSE faults - 1

Log(p, events) == trace' = [trace EXCEPT ![p] = @ \o events]

\* fail_exit (status) is entered: the rollback steps FailExitGroup and
\* FailExitGshadow follow.  msgs are the messages printed before the call.
CallFailExit(p, st, msgs) ==
    /\ pc' = [pc EXCEPT ![p] = "fail_exit"]
    /\ status' = [status EXCEPT ![p] = st]
    /\ out' = [out EXCEPT ![p] = @ \o msgs]

\* failure (): "Permission denied." and fail_exit (1)
failure(p, msgs) == CallFailExit(p, "1", msgs \o <<Msg("Permission denied.")>>)

\* usage (): the usage text and exit (E_USAGE), without fail_exit
usage(p) ==
    /\ pc' = [pc EXCEPT ![p] = "exited"]
    /\ status' = [status EXCEPT ![p] = "E_USAGE"]
    /\ out' = [out EXCEPT ![p] = @ \o <<Msg("Usage")>>]

Goto(p, label) ==
    /\ pc' = [pc EXCEPT ![p] = label]
    /\ UNCHANGED <<status, out>>


\* A faulty variant of requires_root: only -A is kept for root.
requires_root_admins_only(flag) == flag = "A"

\* ------------------------------------------------------------ process_flags
\* The options process_flags gives to root alone: if (!amroot) failure ();
requires_root(flag) == flag \in {"A", "M"}

\* The getopt loop: .exit tells how it ended ("return", "fail_exit", "usage").
RECURSIVE getopt_loop(_, _, _, _)
getopt_loop(opts, fl, root, shadow) ==
    IF opts = <<>>
    THEN [fl |-> fl, exit |-> "return", status |-> "", out |-> <<>>]
    ELSE
    LET flag == Head(opts).flag
        optarg == Head(opts).optarg
        Fail(st, msgs) ==
            [fl |-> fl, exit |-> "fail_exit", status |-> st, out |-> msgs]
        Denied == Fail("1", <<Msg("Permission denied.")>>)
    IN IF requires_root(flag) /\ ~root THEN Denied ELSE
       CASE flag = "a" ->
               IF ~getpwnam(optarg)
               THEN [fl |-> [fl EXCEPT !.user = optarg], exit |-> "fail_exit",
                     status |-> "1", out |-> <<NotExistMsg(optarg)>>]
               ELSE getopt_loop(Tail(opts),
                       [fl EXCEPT !.user = optarg, !.aflg = TRUE], root, shadow)
         [] flag = "A" ->
               IF ~shadow
               THEN Fail("2", <<Msg("shadow group passwords required for -A")>>)
               ELSE IF ~is_valid_user_list(optarg).valid
               THEN Fail("1", is_valid_user_list(optarg).out)
               ELSE getopt_loop(Tail(opts),
                       [fl EXCEPT !.admins = optarg, !.Aflg = TRUE], root, shadow)
         [] flag = "d" ->
               getopt_loop(Tail(opts),
                   [fl EXCEPT !.dflg = TRUE, !.user = optarg], root, shadow)
         [] flag = "g" -> getopt_loop(Tail(opts), fl, root, shadow)
         [] flag = "M" ->
               IF ~is_valid_user_list(optarg).valid
               THEN Fail("1", is_valid_user_list(optarg).out)
               ELSE getopt_loop(Tail(opts),
                       [fl EXCEPT !.members = optarg, !.Mflg = TRUE], root, shadow)
         [] flag = "r" ->
               getopt_loop(Tail(opts), [fl EXCEPT !.rflg = TRUE], root, shadow)
         [] flag = "R" ->
               getopt_loop(Tail(opts), [fl EXCEPT !.Rflg = TRUE], root, shadow)
         [] OTHER ->
               [fl |-> fl, exit |-> "usage", status |-> "E_USAGE", out |-> <<>>]

\* check_flags: TRUE when it calls usage ()
check_flags(fl, operands) ==
    LET One(b) == IF b THEN 1 ELSE 0
        exclusive == One(fl.aflg) + One(fl.dflg) + One(fl.rflg) + One(fl.Rflg)
                        + One(fl.Aflg \/ fl.Mflg)
    IN exclusive > 1 \/ Len(operands) # 1

\* A faulty variant of ProcessFlags: a failed validation prints its messages
\* and the run goes on.
ProcessFlags_going_on(p) ==
    /\ pc[p] = "process_flags"
    /\ LET r == getopt_loop(argv[p].opts, NoFlags, amroot(p), is_shadowgrp)
       IN /\ flags' = [flags EXCEPT ![p] = r.fl]
          /\ IF r.exit = "usage"
             THEN usage(p) /\ UNCHANGED group
             ELSE /\ group' = [group EXCEPT ![p] =
                         IF argv[p].operands = <<>> THEN ""
                         ELSE argv[p].operands[1]]
                  /\ IF check_flags(r.fl, argv[p].operands)
                     THEN usage(p)
                     ELSE /\ pc' = [pc EXCEPT ![p] = "get_my_pwent"]
                          /\ out' = [out EXCEPT ![p] = @ \o r.out]
                          /\ UNCHANGED status
    /\ UNCHANGED <<envVars, inputVars, stdin, faults, fileVars,
                   lockVars, myname, lockedVars,
                   entVars, dbVars, passVars, ttyVars, trace>>

ProcessFlags(p) ==
    /\ pc[p] = "process_flags"
    /\ LET r == getopt_loop(argv[p].opts, NoFlags, amroot(p), is_shadowgrp)
       IN /\ flags' = [flags EXCEPT ![p] = r.fl]
          /\ IF r.exit = "fail_exit"
             THEN CallFailExit(p, r.status, r.out) /\ UNCHANGED group
             ELSE IF r.exit = "usage"
             THEN usage(p) /\ UNCHANGED group
             ELSE /\ group' = [group EXCEPT ![p] =
                         IF argv[p].operands = <<>> THEN ""
                         ELSE argv[p].operands[1]]
                  /\ IF check_flags(r.fl, argv[p].operands)
                     THEN usage(p) ELSE Goto(p, "get_my_pwent")
    /\ UNCHANGED <<envVars, inputVars, stdin, faults, fileVars,
                   lockVars, myname, lockedVars,
                   entVars, dbVars, passVars, ttyVars, trace>>

\* main, lines 834-844
GetMyPwent(p) ==
    /\ pc[p] = "get_my_pwent"
    /\ IF pw_name[p] = NoStr
       THEN failure(p, <<Msg("Who are you?")>>) /\ UNCHANGED myname
       ELSE Goto(p, "get_group") /\ myname' = [myname EXCEPT ![p] = pw_name[p]]
    /\ UNCHANGED <<envVars, inputVars, stdin, faults, fileVars,
                   lockVars, flags, group,
                   lockedVars, entVars, dbVars, passVars, ttyVars, trace>>

\* ---------------------------------------------------------------- get_group
IoResults ==
    IF faults > 0 THEN {"ok", "open fails", "close fails"} ELSE {"ok"}

\* get_group, the /etc/group half: gr_open (O_RDONLY) .. gr_close ()
GetGroup(p) ==
    /\ pc[p] = "get_group"
    /\ \E io \in IoResults :
          /\ Inject(io = "ok")
          /\ LET tmpgr == gr_locate(group_file, group[p])
                 gr == GroupRec(tmpgr.gr_name, tmpgr.gr_passwd,
                                dup_list(tmpgr.gr_mem))
             IN IF io = "open fails"
                THEN /\ CallFailExit(p, "1", <<Msg("cannot open the group file")>>)
                     /\ Log(p, <<"gr_open(O_RDONLY)=0">>)
                     /\ UNCHANGED grent
                ELSE IF tmpgr = NULL
                THEN /\ failure(p,
                          <<Msg("group does not exist in the group file")>>)
                     /\ Log(p, <<"gr_open(O_RDONLY)", "gr_locate=NULL">>)
                     /\ UNCHANGED grent
                ELSE /\ grent' = [grent EXCEPT ![p] = gr]
                     /\ IF io = "close fails"
                        THEN /\ CallFailExit(p, "1",
                                  <<Msg("cannot rewrite the group file")>>)
                             /\ Log(p, <<"gr_open(O_RDONLY)", "gr_locate",
                                         "gr_close(O_RDONLY)=0">>)
                        ELSE /\ Goto(p, IF is_shadowgrp THEN "get_sgroup"
                                        ELSE "check_perms")
                             /\ Log(p, <<"gr_open(O_RDONLY)", "gr_locate",
                                         "gr_close(O_RDONLY)">>)
    /\ UNCHANGED <<envVars, inputVars, stdin, fileVars,
                   lockVars, flagVars, lockedVars,
                   sgent, dbVars, passVars, ttyVars>>


\* A faulty variant of NewShadowEntry: every member becomes an admin.
NewShadowEntry_all_admins(name, gr, fmia) ==
    ShadowRec(name, gr.gr_passwd, dup_list(gr.gr_mem), dup_list(gr.gr_mem))

\* The record get_group makes up when /etc/gshadow has no entry of the group.
NewShadowEntry(name, gr, fmia) ==
    LET sg_mem == dup_list(gr.gr_mem)
    IN ShadowRec(name, gr.gr_passwd,
                 IF fmia /\ sg_mem # <<>> THEN <<sg_mem[1]>> ELSE <<>>,
                 sg_mem)

\* get_group, the /etc/gshadow half: sgr_open (O_RDONLY) .. sgr_close ()
GetShadowGroup(p) ==
    /\ pc[p] = "get_sgroup"
    /\ \E io \in IoResults :
          /\ Inject(io = "ok")
          /\ LET tmpsg == sgr_locate(gshadow_file, group[p])
             IN IF io = "open fails"
                THEN /\ CallFailExit(p, "1",
                          <<Msg("cannot open the shadow group file")>>)
                     /\ Log(p, <<"sgr_open(O_RDONLY)=0">>)
                     /\ UNCHANGED entVars
                ELSE /\ IF tmpsg # NULL
                        THEN /\ sgent' = [sgent EXCEPT ![p] =
                                    ShadowRec(tmpsg.sg_name, tmpsg.sg_passwd,
                                              dup_list(tmpsg.sg_adm),
                                              dup_list(tmpsg.sg_mem))]
                             /\ UNCHANGED grent
                        ELSE /\ sgent' = [sgent EXCEPT ![p] =
                                    NewShadowEntry(group[p], grent[p],
                                                   first_member_is_admin)]
                             /\ grent' = [grent EXCEPT ![p].gr_passwd =
                                             SHADOW_PASSWD_STRING]
                     /\ LET found == IF tmpsg # NULL THEN "sgr_locate"
                                     ELSE "sgr_locate=NULL"
                        IN IF io = "close fails"
                           THEN /\ CallFailExit(p, "1",
                                     <<Msg("cannot rewrite the shadow group file")>>)
                                /\ Log(p, <<"sgr_open(O_RDONLY)", found,
                                            "sgr_close(O_RDONLY)=0">>)
                           ELSE /\ Goto(p, "check_perms")
                                /\ Log(p, <<"sgr_open(O_RDONLY)", found,
                                            "sgr_close(O_RDONLY)">>)
    /\ UNCHANGED <<envVars, inputVars, stdin, fileVars,
                   lockVars, flagVars, lockedVars,
                   dbVars, passVars, ttyVars>>


\* A faulty variant of check_perms: the shadow member list is consulted, not sg_adm.
check_perms_by_member(root, shadow, fmia, gr, sg, name) ==
    IF shadow
    THEN root \/ is_on_list(sg.sg_mem, name)
    ELSE IF fmia
    THEN root \/ (gr.gr_mem # <<>> /\ gr.gr_mem[1] = name)
    ELSE root

\* A faulty variant of check_perms: any listed member passes, not the first alone.
check_perms_any_position(root, shadow, fmia, gr, sg, name) ==
    IF shadow
    THEN root \/ is_on_list(sg.sg_adm, name)
    ELSE IF fmia
    THEN root \/ is_on_list(gr.gr_mem, name)
    ELSE root

\* -------------------------------------------------------------- check_perms
\* TRUE when check_perms returns (the caller is allowed)
check_perms(root, shadow, fmia, gr, sg, name) ==
    IF shadow
    THEN root \/ is_on_list(sg.sg_adm, name)
    ELSE IF fmia
    THEN root \/ (gr.gr_mem # <<>> /\ gr.gr_mem[1] = name)
    ELSE root

CheckPerms(p) ==
    /\ pc[p] = "check_perms"
    /\ IF check_perms(amroot(p), is_shadowgrp, first_member_is_admin,
                      grent[p], sgent[p], myname[p])
       THEN Goto(p, "operation")
       ELSE failure(p, <<>>)
    /\ UNCHANGED <<envVars, inputVars, stdin, faults, fileVars,
                   lockVars, flagVars, lockedVars,
                   entVars, dbVars, passVars, ttyVars, trace>>

\* ------------------------------------------------------- main, lines 868-1000
NullPtr == "(null)"

\* A faulty variant of operate: -d does not look at removed.
operate_without_removed(fl, shadow, gr, sg) ==
    LET SetPasswd(pw) ==
            [gr |-> [gr EXCEPT !.gr_passwd = pw],
             sg |-> IF shadow THEN [sg EXCEPT !.sg_passwd = pw] ELSE sg,
             removed |-> TRUE]
        sgA == IF fl.Aflg THEN [sg EXCEPT !.sg_adm = comma_to_list(fl.admins)]
               ELSE sg
    IN IF fl.rflg THEN SetPasswd("")
       ELSE IF fl.Rflg THEN SetPasswd("!")
       ELSE IF fl.aflg
       THEN [gr |-> [gr EXCEPT !.gr_mem = add_list(@, fl.user)],
             sg |-> IF shadow THEN [sg EXCEPT !.sg_mem = add_list(@, fl.user)]
                    ELSE sg,
             removed |-> TRUE]
       ELSE IF fl.dflg
       THEN [gr |-> IF is_on_list(gr.gr_mem, fl.user)
                    THEN [gr EXCEPT !.gr_mem = del_list(@, fl.user)] ELSE gr,
             sg |-> IF shadow /\ is_on_list(sg.sg_mem, fl.user)
                    THEN [sg EXCEPT !.sg_mem = del_list(@, fl.user)] ELSE sg,
             removed |-> TRUE]
       ELSE IF fl.Mflg
       THEN [gr |-> [gr EXCEPT !.gr_mem = comma_to_list(fl.members)],
             sg |-> IF shadow
                    THEN [sgA EXCEPT !.sg_mem = comma_to_list(fl.members)]
                    ELSE sgA,
             removed |-> TRUE]
       ELSE [gr |-> gr, sg |-> sgA, removed |-> TRUE]

\* A faulty variant of operate: -d leaves sg_mem alone.
operate_delete_primary_only(fl, shadow, gr, sg) ==
    LET SetPasswd(pw) ==
            [gr |-> [gr EXCEPT !.gr_passwd = pw],
             sg |-> IF shadow THEN [sg EXCEPT !.sg_passwd = pw] ELSE sg,
             removed |-> TRUE]
        sgA == IF fl.Aflg THEN [sg EXCEPT !.sg_adm = comma_to_list(fl.admins)]
               ELSE sg
    IN IF fl.rflg THEN SetPasswd("")
       ELSE IF fl.Rflg THEN SetPasswd("!")
       ELSE IF fl.aflg
       THEN [gr |-> [gr EXCEPT !.gr_mem = add_list(@, fl.user)],
             sg |-> IF shadow THEN [sg EXCEPT !.sg_mem = add_list(@, fl.user)]
                    ELSE sg,
             removed |-> TRUE]
       ELSE IF fl.dflg
       THEN [gr |-> IF is_on_list(gr.gr_mem, fl.user)
                    THEN [gr EXCEPT !.gr_mem = del_list(@, fl.user)] ELSE gr,
             sg |-> sg,
             removed |-> is_on_list(gr.gr_mem, fl.user)
                            \/ (shadow /\ is_on_list(sg.sg_mem, fl.user))]
       ELSE IF fl.Mflg
       THEN [gr |-> [gr EXCEPT !.gr_mem = comma_to_list(fl.members)],
             sg |-> IF shadow
                    THEN [sgA EXCEPT !.sg_mem = comma_to_list(fl.members)]
                    ELSE sgA,
             removed |-> TRUE]
       ELSE [gr |-> gr, sg |-> sgA, removed |-> TRUE]

\* A faulty variant of operate: -M adds the new list to the old one.
operate_replace_merging(fl, shadow, gr, sg) ==
    LET SetPasswd(pw) ==
            [gr |-> [gr EXCEPT !.gr_passwd = pw],
             sg |-> IF shadow THEN [sg EXCEPT !.sg_passwd = pw] ELSE sg,
             removed |-> TRUE]
        sgA == IF fl.Aflg THEN [sg EXCEPT !.sg_adm = comma_to_list(fl.admins)]
               ELSE sg
    IN IF fl.rflg THEN SetPasswd("")
       ELSE IF fl.Rflg THEN SetPasswd("!")
       ELSE IF fl.aflg
       THEN [gr |-> [gr EXCEPT !.gr_mem = add_list(@, fl.user)],
             sg |-> IF shadow THEN [sg EXCEPT !.sg_mem = add_list(@, fl.user)]
                    ELSE sg,
             removed |-> TRUE]
       ELSE IF fl.dflg
       THEN [gr |-> IF is_on_list(gr.gr_mem, fl.user)
                    THEN [gr EXCEPT !.gr_mem = del_list(@, fl.user)] ELSE gr,
             sg |-> IF shadow /\ is_on_list(sg.sg_mem, fl.user)
                    THEN [sg EXCEPT !.sg_mem = del_list(@, fl.user)] ELSE sg,
             removed |-> is_on_list(gr.gr_mem, fl.user)
                            \/ (shadow /\ is_on_list(sg.sg_mem, fl.user))]
       ELSE IF fl.Mflg
       THEN [gr |-> [gr EXCEPT !.gr_mem = @ \o comma_to_list(fl.members)],
             sg |-> IF shadow
                    THEN [sgA EXCEPT !.sg_mem = @ \o comma_to_list(fl.members)]
                    ELSE sgA,
             removed |-> TRUE]
       ELSE [gr |-> gr, sg |-> sgA, removed |-> TRUE]

\* The record pair after the operation the flags select; .removed is the
\* local of the -d branch.  With /etc/gshadow absent *sg is uninitialised and
\* never read, so the stores into it are left out.
operate(fl, shadow, gr, sg) ==
    LET SetPasswd(pw) ==
            [gr |-> [gr EXCEPT !.gr_passwd = pw],
             sg |-> IF shadow THEN [sg EXCEPT !.sg_passwd = pw] ELSE sg,
             removed |-> TRUE]
        sgA == IF fl.Aflg THEN [sg EXCEPT !.sg_adm = comma_to_list(fl.admins)]
               ELSE sg
    IN IF fl.rflg THEN SetPasswd("")
       ELSE IF fl.Rflg THEN SetPasswd("!")
       ELSE IF fl.aflg
       THEN [gr |-> [gr EXCEPT !.gr_mem = add_list(@, fl.user)],
             sg |-> IF shadow THEN [sg EXCEPT !.sg_mem = add_list(@, fl.user)]
                    ELSE sg,
             removed |-> TRUE]
       ELSE IF fl.dflg
       THEN [gr |-> IF is_on_list(gr.gr_mem, fl.user)
                    THEN [gr EXCEPT !.gr_mem = del_list(@, fl.user)] ELSE gr,
             sg |-> IF shadow /\ is_on_list(sg.sg_mem, fl.user)
                    THEN [sg EXCEPT !.sg_mem = del_list(@, fl.user)] ELSE sg,
             removed |-> is_on_list(gr.gr_mem, fl.user)
                            \/ (shadow /\ is_on_list(sg.sg_mem, fl.user))]
       ELSE IF fl.Mflg
       THEN [gr |-> [gr EXCEPT !.gr_mem = comma_to_list(fl.members)],
             sg |-> IF shadow
                    THEN [sgA EXCEPT !.sg_mem = comma_to_list(fl.members)]
                    ELSE sgA,
             removed |-> TRUE]
       ELSE [gr |-> gr, sg |-> sgA, removed |-> TRUE]

PasswordChange(fl) ==
    ~(fl.rflg \/ fl.Rflg \/ fl.aflg \/ fl.dflg \/ fl.Aflg \/ fl.Mflg)

Operation(p) ==
    /\ pc[p] = "operation"
    /\ LET r == operate(flags[p], is_shadowgrp, grent[p], sgent[p])
       IN IF PasswordChange(flags[p])
          THEN Goto(p, "isatty") /\ UNCHANGED entVars
          ELSE IF ~r.removed
          THEN /\ CallFailExit(p, "1", <<Msg("user is not a member")>>)
               /\ UNCHANGED entVars
          ELSE /\ Goto(p, "output")
               /\ grent' = [grent EXCEPT ![p] = r.gr]
               /\ sgent' = [sgent EXCEPT ![p] = r.sg]
    /\ UNCHANGED <<envVars, inputVars, stdin, faults, fileVars,
                   lockVars, flagVars, lockedVars,
                   dbVars, passVars, ttyVars, trace>>

\* main, lines 1007-1025: isatty, catch_signals (0), signal (..., catch_signals)
CatchSignals(p) ==
    /\ pc[p] = "isatty"
    /\ \E is_a_tty \in Results :
          /\ Inject(is_a_tty)
          /\ IF ~is_a_tty
             THEN /\ CallFailExit(p, "1", <<Msg("Not a tty")>>)
                  /\ UNCHANGED ttyVars
             ELSE /\ Goto(p, "getpass_new")
                  /\ sgtty' = [sgtty EXCEPT ![p] = tty[p]]
                  /\ handlers' = [handlers EXCEPT ![p] = TRUE]
                  /\ UNCHANGED tty
    /\ UNCHANGED <<envVars, inputVars, stdin, fileVars,
                   lockVars, flagVars, lockedVars,
                   entVars, dbVars, passVars, trace>>

\* ------------------------------------------------------------ change_passwd
\* getpass () switches the echo off and waits for a line
Getpass(p) ==
    /\ pc[p] \in {"getpass_new", "getpass_again"}
    /\ tty' = [tty EXCEPT ![p] = "noecho"]
    /\ Goto(p, IF pc[p] = "getpass_new" THEN "read_new" ELSE "read_again")
    /\ UNCHANGED <<envVars, inputVars, stdin, faults, fileVars,
                   lockVars, flagVars, lockedVars,
                   entVars, dbVars, passVars, sgtty, handlers, trace>>

\* What getpass () returns: the next line typed, NULL at end of input
getpass(input) == IF input = <<>> THEN NullPtr ELSE Head(input)

\* cp = getpass ("New Password: ") returns; STRFCPY (pass, cp); strzero (cp)
ReadNew(p) ==
    /\ pc[p] = "read_new"
    /\ tty' = [tty EXCEPT ![p] = "echo"]
    /\ stdin' = [stdin EXCEPT ![p] = IF @ = <<>> THEN @ ELSE Tail(@)]
    /\ LET cp == getpass(stdin[p])
       IN IF cp = NullPtr
          THEN CallFailExit(p, "1", <<>>) /\ UNCHANGED pass
          ELSE Goto(p, "getpass_again") /\ pass' = [pass EXCEPT ![p] = cp]
    /\ UNCHANGED <<envVars, inputVars, faults, fileVars, lockVars, flagVars,
                   lockedVars, entVars, dbVars, retries, sgtty, handlers,
                   trace>>

\* A faulty variant of ReadAgain: one round more than RETRIES.
ReadAgain_one_more_round(p) ==
    /\ pc[p] = "read_again"
    /\ tty' = [tty EXCEPT ![p] = "echo"]
    /\ stdin' = [stdin EXCEPT ![p] = IF @ = <<>> THEN @ ELSE Tail(@)]
    /\ LET cp == getpass(stdin[p])
       IN IF cp = NullPtr
          THEN CallFailExit(p, "1", <<>>) /\ UNCHANGED passVars
          ELSE IF pass[p] = cp
          THEN Goto(p, "pw_encrypt") /\ UNCHANGED passVars
          ELSE /\ pass' = [pass EXCEPT ![p] = ""]
               /\ retries' = [retries EXCEPT ![p] = @ + 1]
               /\ IF retries[p] + 1 < RETRIES + 1
                  THEN /\ pc' = [pc EXCEPT ![p] = "getpass_new"]
                       /\ out' = [out EXCEPT ![p] =
                              Append(@, Msg("They don't match; try again"))]
                       /\ UNCHANGED status
                  ELSE CallFailExit(p, "1", <<Msg("Try again later")>>)
    /\ UNCHANGED <<envVars, inputVars, faults, fileVars, lockVars, flagVars,
                   lockedVars, entVars, dbVars, sgtty, handlers, trace>>

\* cp = getpass ("Re-enter new password: ") returns; the rest of the round
ReadAgain(p) ==
    /\ pc[p] = "read_again"
    /\ tty' = [tty EXCEPT ![p] = "echo"]
    /\ stdin' = [stdin EXCEPT ![p] = IF @ = <<>> THEN @ ELSE Tail(@)]
    /\ LET cp == getpass(stdin[p])
       IN IF cp = NullPtr
          THEN CallFailExit(p, "1", <<>>) /\ UNCHANGED passVars
          ELSE IF pass[p] = cp
          THEN Goto(p, "pw_encrypt") /\ UNCHANGED passVars
          ELSE /\ pass' = [pass EXCEPT ![p] = ""]
               /\ retries' = [retries EXCEPT ![p] = @ + 1]
               /\ IF retries[p] + 1 < RETRIES
                  THEN /\ pc' = [pc EXCEPT ![p] = "getpass_new"]
                       /\ out' = [out EXCEPT ![p] =
                              Append(@, Msg("They don't match; try again"))]
                       /\ UNCHANGED status
                  ELSE CallFailExit(p, "1", <<Msg("Try again later")>>)
    /\ UNCHANGED <<envVars, inputVars, faults, fileVars, lockVars, flagVars,
                   lockedVars, entVars, dbVars, sgtty, handlers, trace>>

\* A faulty variant of PwEncrypt: pass is not cleared.
PwEncrypt_keeping_pass(p) ==
    /\ pc[p] = "pw_encrypt"
    /\ UNCHANGED pass
    /\ IF is_shadowgrp
       THEN /\ sgent' = [sgent EXCEPT ![p].sg_passwd = pw_encrypt(pass[p])]
            /\ UNCHANGED grent
       ELSE /\ grent' = [grent EXCEPT ![p].gr_passwd = pw_encrypt(pass[p])]
            /\ UNCHANGED sgent
    /\ Goto(p, "output")
    /\ UNCHANGED <<envVars, inputVars, stdin, faults, fileVars,
                   lockVars, flagVars, lockedVars,
                   dbVars, retries, ttyVars, trace>>

\* change_passwd, lines 760-769
PwEncrypt(p) ==
    /\ pc[p] = "pw_encrypt"
    /\ pass' = [pass EXCEPT ![p] = ""]
    /\ IF is_shadowgrp
       THEN /\ sgent' = [sgent EXCEPT ![p].sg_passwd = pw_encrypt(pass[p])]
            /\ UNCHANGED grent
       ELSE /\ grent' = [grent EXCEPT ![p].gr_passwd = pw_encrypt(pass[p])]
            /\ UNCHANGED sgent
    /\ Goto(p, "output")
    /\ UNCHANGED <<envVars, inputVars, stdin, faults, fileVars,
                   lockVars, flagVars, lockedVars,
                   dbVars, retries, ttyVars, trace>>

\* pwd_init () of the library: SIGHUP, SIGINT, SIGQUIT, SIGTERM and SIGTSTP
\* (with SIGALRM, SIGPIPE, SIGTTOU) are set to SIG_IGN, so catch_signals is
\* no longer installed once the files are about to be rewritten.
pwd_init(p) == handlers' = [handlers EXCEPT ![p] = FALSE]

\* main, the label output: setuid (0); pwd_init ()
Output(p) ==
    /\ pc[p] = "output"
    /\ \E setuid_ok \in Results :
          /\ Inject(setuid_ok)
          /\ IF setuid_ok
             THEN Goto(p, "gr_lock") /\ pwd_init(p)
             ELSE /\ CallFailExit(p, "1", <<Msg("Cannot change ID to root.")>>)
                  /\ UNCHANGED handlers
    /\ UNCHANGED <<envVars, inputVars, stdin, fileVars,
                   lockVars, flagVars, lockedVars,
                   entVars, dbVars, passVars, tty, sgtty, trace>>

\* --------------------------------------------------------------- open_files
\* gr_lock () / sgr_lock (): the lock is taken when nobody holds it and the
\* lock file can be made; the call never waits.
LockResults ==
    IF faults > 0 THEN {"ok", "cannot make the lock file"} ELSE {"ok"}


\* A faulty variant of GrLock: the result of gr_lock () is not looked at.
GrLock_ignoring_failure(p) ==
    /\ pc[p] = "gr_lock"
    /\ \E r \in LockResults :
          /\ Inject(r = "ok")
          /\ IF gr_lock_holders = {} /\ r = "ok"
             THEN /\ gr_lock_holders' = {p}
                  /\ Log(p, <<"gr_lock">>)
             ELSE /\ UNCHANGED gr_lock_holders
                  /\ Log(p, <<"gr_lock=0">>)
          /\ Goto(p, "group_locked")
    /\ UNCHANGED <<envVars, inputVars, stdin, fileVars, sgr_lock_holders,
                   flagVars, lockedVars, entVars, dbVars, passVars, ttyVars>>

\* A faulty variant of GrLock: a failed gr_lock () is tried again.
GrLock_retry(p) ==
    /\ pc[p] = "gr_lock"
    /\ \E r \in LockResults :
          /\ Inject(r = "ok")
          /\ IF gr_lock_holders = {} /\ r = "ok"
             THEN /\ gr_lock_holders' = {p}
                  /\ Goto(p, "group_locked")
                  /\ Log(p, <<"gr_lock">>)
             ELSE /\ UNCHANGED <<gr_lock_holders, pc, status, out>>
                  /\ Log(p, <<"gr_lock=0">>)
    /\ UNCHANGED <<envVars, inputVars, stdin, fileVars, sgr_lock_holders,
                   flagVars, lockedVars, entVars, dbVars, passVars, ttyVars>>

GrLock(p) ==
    /\ pc[p] = "gr_lock"
    /\ \E r \in LockResults :
          /\ Inject(r = "ok")
          /\ IF gr_lock_holders = {} /\ r = "ok"
             THEN /\ gr_lock_holders' = {p}
                  /\ Goto(p, "group_locked")
                  /\ Log(p, <<"gr_lock">>)
             ELSE /\ UNCHANGED gr_lock_holders
                  /\ CallFailExit(p, "1", <<Msg("cannot lock the group file")>>)
                  /\ Log(p, <<"gr_lock=0">>)
    /\ UNCHANGED <<envVars, inputVars, stdin, fileVars,
                   sgr_lock_holders, flagVars,
                   lockedVars, entVars, dbVars, passVars, ttyVars>>

\* A faulty variant of SetGroupLocked: group_locked is left false.
SetGroupLocked_forgotten(p) ==
    /\ pc[p] = "group_locked"
    /\ UNCHANGED group_locked
    /\ Goto(p, IF is_shadowgrp THEN "sgr_lock" ELSE "gr_open")
    /\ UNCHANGED <<envVars, inputVars, stdin, faults, fileVars,
                   lockVars, flagVars,
                   gshadow_locked, entVars, dbVars, passVars, ttyVars, trace>>

\* group_locked = true;
SetGroupLocked(p) ==
    /\ pc[p] = "group_locked"
    /\ group_locked' = [group_locked EXCEPT ![p] = TRUE]
    /\ Goto(p, IF is_shadowgrp THEN "sgr_lock" ELSE "gr_open")
    /\ UNCHANGED <<envVars, inputVars, stdin, faults, fileVars,
                   lockVars, flagVars,
                   gshadow_locked, entVars, dbVars, passVars, ttyVars, trace>>

SgrLock(p) ==
    /\ pc[p] = "sgr_lock"
    /\ \E r \in LockResults :
          /\ Inject(r = "ok")
          /\ IF sgr_lock_holders = {} /\ r = "ok"
             THEN /\ sgr_lock_holders' = {p}
                  /\ Goto(p, "gshadow_locked")
                  /\ Log(p, <<"sgr_lock">>)
             ELSE /\ UNCHANGED sgr_lock_holders
                  /\ CallFailExit(p, "1",
                         <<Msg("cannot lock the shadow group file")>>)
                  /\ Log(p, <<"sgr_lock=0">>)
    /\ UNCHANGED <<envVars, inputVars, stdin, fileVars,
                   gr_lock_holders, flagVars,
                   lockedVars, entVars, dbVars, passVars, ttyVars>>

\* gshadow_locked = true;
SetGshadowLocked(p) ==
    /\ pc[p] = "gshadow_locked"
    /\ gshadow_locked' = [gshadow_locked EXCEPT ![p] = TRUE]
    /\ Goto(p, "gr_open")
    /\ UNCHANGED <<envVars, inputVars, stdin, faults, fileVars,
                   lockVars, flagVars,
                   group_locked, entVars, dbVars, passVars, ttyVars, trace>>

\* gr_open (O_RDWR): the file is read into memory
GrOpen(p) ==
    /\ pc[p] = "gr_open"
    /\ \E ok \in Results :
          /\ Inject(ok)
          /\ IF ok
             THEN /\ gr_db' = [gr_db EXCEPT ![p] = group_file]
                  /\ Goto(p, IF is_shadowgrp THEN "sgr_open" ELSE "gr_update")
                  /\ Log(p, <<"gr_open(O_RDWR)">>)
             ELSE /\ UNCHANGED gr_db
                  /\ CallFailExit(p, "1", <<Msg("cannot open the group file")>>)
                  /\ Log(p, <<"gr_open(O_RDWR)=0">>)
    /\ UNCHANGED <<envVars, inputVars, stdin, fileVars,
                   lockVars, flagVars, lockedVars,
                   entVars, sgr_db, passVars, ttyVars>>

SgrOpen(p) ==
    /\ pc[p] = "sgr_open"
    /\ \E ok \in Results :
          /\ Inject(ok)
          /\ IF ok
             THEN /\ sgr_db' = [sgr_db EXCEPT ![p] = gshadow_file]
                  /\ Goto(p, "gr_update")
                  /\ Log(p, <<"sgr_open(O_RDWR)">>)
             ELSE /\ UNCHANGED sgr_db
                  /\ CallFailExit(p, "1",
                         <<Msg("cannot open the shadow group file")>>)
                  /\ Log(p, <<"sgr_open(O_RDWR)=0">>)
    /\ UNCHANGED <<envVars, inputVars, stdin, fileVars,
                   lockVars, flagVars, lockedVars,
                   entVars, gr_db, passVars, ttyVars>>

\* ------------------------------------------------------------- update_group
GrUpdate(p) ==
    /\ pc[p] = "gr_update"
    /\ \E ok \in Results :
          /\ Inject(ok)
          /\ IF ok
             THEN /\ gr_db' = [gr_db EXCEPT ![p] = gr_update(@, grent[p])]
                  /\ Goto(p, IF is_shadowgrp THEN "sgr_update" ELSE "gr_close")
                  /\ Log(p, <<"gr_update">>)
             ELSE /\ UNCHANGED gr_db
                  /\ CallFailExit(p, "1",
                         <<Msg("cannot update the entry in the group file")>>)
                  /\ Log(p, <<"gr_update=0">>)
    /\ UNCHANGED <<envVars, inputVars, stdin, fileVars,
                   lockVars, flagVars, lockedVars,
                   entVars, sgr_db, passVars, ttyVars>>

SgrUpdate(p) ==
    /\ pc[p] = "sgr_update"
    /\ \E ok \in Results :
          /\ Inject(ok)
          /\ IF ok
             THEN /\ sgr_db' = [sgr_db EXCEPT ![p] = sgr_update(@, sgent[p])]
                  /\ Goto(p, "gr_close")
                  /\ Log(p, <<"sgr_update">>)
             ELSE /\ UNCHANGED sgr_db
                  /\ CallFailExit(p, "1",
                         <<Msg("cannot update the entry in the shadow group file")>>)
                  /\ Log(p, <<"sgr_update=0">>)
    /\ UNCHANGED <<envVars, inputVars, stdin, fileVars,
                   lockVars, flagVars, lockedVars,
                   entVars, gr_db, passVars, ttyVars>>

\* A faulty variant of GrClose: a failing gr_close () has rewritten the file
\* all the same.
GrClose_rewriting_on_failure(p) ==
    /\ pc[p] = "gr_close"
    /\ \E ok \in Results :
          /\ Inject(ok)
          /\ IF ok
             THEN /\ group_file' = gr_db[p]
                  /\ gr_db' = [gr_db EXCEPT ![p] = NULL]
                  /\ Goto(p, IF is_shadowgrp THEN "sgr_close" ELSE "gr_unlock")
                  /\ Log(p, <<"gr_close(O_RDWR)">>)
             ELSE /\ group_file' = gr_db[p]
                  /\ UNCHANGED gr_db
                  /\ CallFailExit(p, "1", <<Msg("cannot rewrite the group file")>>)
                  /\ Log(p, <<"gr_close(O_RDWR)=0">>)
    /\ UNCHANGED <<envVars, inputVars, stdin,
                   gshadow_file, lockVars, flagVars,
                   lockedVars, entVars, sgr_db, passVars, ttyVars>>

\* -------------------------------------------------------------- close_files
\* gr_close (): the file is rewritten from memory, as a whole
GrClose(p) ==
    /\ pc[p] = "gr_close"
    /\ \E ok \in Results :
          /\ Inject(ok)
          /\ IF ok
             THEN /\ group_file' = gr_db[p]
                  /\ gr_db' = [gr_db EXCEPT ![p] = NULL]
                  /\ Goto(p, IF is_shadowgrp THEN "sgr_close" ELSE "gr_unlock")
                  /\ Log(p, <<"gr_close(O_RDWR)">>)
             ELSE /\ UNCHANGED <<group_file, gr_db>>
                  /\ CallFailExit(p, "1", <<Msg("cannot rewrite the group file")>>)
                  /\ Log(p, <<"gr_close(O_RDWR)=0">>)
    /\ UNCHANGED <<envVars, inputVars, stdin,
                   gshadow_file, lockVars, flagVars,
                   lockedVars, entVars, sgr_db, passVars, ttyVars>>

SgrClose(p) ==
    /\ pc[p] = "sgr_close"
    /\ \E ok \in Results :
          /\ Inject(ok)
          /\ IF ok
             THEN /\ gshadow_file' = sgr_db[p]
                  /\ sgr_db' = [sgr_db EXCEPT ![p] = NULL]
                  /\ Goto(p, "sgr_unlock")
                  /\ Log(p, <<"sgr_close(O_RDWR)">>)
             ELSE /\ UNCHANGED <<gshadow_file, sgr_db>>
                  /\ CallFailExit(p, "1",
                         <<Msg("cannot rewrite the shadow group file")>>)
                  /\ Log(p, <<"sgr_close(O_RDWR)=0">>)
    /\ UNCHANGED <<envVars, inputVars, stdin,
                   group_file, lockVars, flagVars,
                   lockedVars, entVars, gr_db, passVars, ttyVars>>

\* gr_unlock () / sgr_unlock (): the caller's lock is dropped; the call
\* returns 0 when the caller holds none.
SgrUnlock(p) ==
    /\ pc[p] = "sgr_unlock"
    /\ sgr_lock_holders' = sgr_lock_holders \ {p}
    /\ IF p \in sgr_lock_holders
       THEN /\ pc' = [pc EXCEPT ![p] = "gshadow_unlocked"]
            /\ Log(p, <<"sgr_unlock">>)
            /\ UNCHANGED <<status, out>>
       ELSE /\ pc' = [pc EXCEPT ![p] = "gshadow_unlocked"]
            /\ Log(p, <<"sgr_unlock=0">>)
            /\ out' = [out EXCEPT ![p] =
                         Append(@, Msg("cannot unlock the shadow group file"))]
            /\ UNCHANGED status
    /\ UNCHANGED <<envVars, inputVars, stdin, faults, fileVars,
                   gr_lock_holders, flagVars,
                   lockedVars, entVars, dbVars, passVars, ttyVars>>

\* gshadow_locked = false;
ClearGshadowLocked(p) ==
    /\ pc[p] = "gshadow_unlocked"
    /\ gshadow_locked' = [gshadow_locked EXCEPT ![p] = FALSE]
    /\ Goto(p, "gr_unlock")
    /\ UNCHANGED <<envVars, inputVars, stdin, faults, fileVars,
                   lockVars, flagVars,
                   group_locked, entVars, dbVars, passVars, ttyVars, trace>>

GrUnlock(p) ==
    /\ pc[p] = "gr_unlock"
    /\ gr_lock_holders' = gr_lock_holders \ {p}
    /\ IF p \in gr_lock_holders
       THEN /\ pc' = [pc EXCEPT ![p] = "group_unlocked"]
            /\ Log(p, <<"gr_unlock">>)
            /\ UNCHANGED <<status, out>>
       ELSE /\ pc' = [pc EXCEPT ![p] = "group_unlocked"]
            /\ Log(p, <<"gr_unlock=0">>)
            /\ out' = [out EXCEPT ![p] =
                         Append(@, Msg("cannot unlock the group file"))]
            /\ UNCHANGED status
    /\ UNCHANGED <<envVars, inputVars, stdin, faults, fileVars,
                   sgr_lock_holders, flagVars,
                   lockedVars, entVars, dbVars, passVars, ttyVars>>

\* group_locked = false;
ClearGroupLocked(p) ==
    /\ pc[p] = "group_unlocked"
    /\ group_locked' = [group_locked EXCEPT ![p] = FALSE]
    /\ Goto(p, "nscd_flush_cache")
    /\ UNCHANGED <<envVars, inputVars, stdin, faults, fileVars,
                   lockVars, flagVars,
                   gshadow_locked, entVars, dbVars, passVars, ttyVars, trace>>

\* nscd_flush_cache ("group"); exit (E_SUCCESS);
ExitSuccess(p) ==
    /\ pc[p] = "nscd_flush_cache"
    /\ pc' = [pc EXCEPT ![p] = "exited"]
    /\ status' = [status EXCEPT ![p] = "E_SUCCESS"]
    /\ UNCHANGED <<envVars, inputVars, stdin, faults, fileVars,
                   lockVars, flagVars, lockedVars,
                   entVars, dbVars, passVars, ttyVars, out, trace>>


\* A faulty variant of FailExitGroup: the wrong flag guards gr_unlock ().
FailExitGroup_wrong_flag(p) ==
    /\ pc[p] = "fail_exit"
    /\ pc' = [pc EXCEPT ![p] = "fail_exit_gshadow"]
    /\ IF gshadow_locked[p]
       THEN /\ gr_lock_holders' = gr_lock_holders \ {p}
            /\ IF p \in gr_lock_holders
               THEN Log(p, <<"gr_unlock">>) /\ UNCHANGED out
               ELSE /\ Log(p, <<"gr_unlock=0">>)
                    /\ out' = [out EXCEPT ![p] =
                                 Append(@, Msg("cannot unlock the group file"))]
       ELSE UNCHANGED <<gr_lock_holders, out, trace>>
    /\ UNCHANGED <<envVars, inputVars, stdin, faults, fileVars,
                   sgr_lock_holders, flagVars, lockedVars, entVars, dbVars,
                   passVars, ttyVars, status>>

\* ---------------------------------------------------------------- fail_exit
\* if (group_locked) gr_unlock ();
FailExitGroup(p) ==
    /\ pc[p] = "fail_exit"
    /\ pc' = [pc EXCEPT ![p] = "fail_exit_gshadow"]
    /\ IF group_locked[p]
       THEN /\ gr_lock_holders' = gr_lock_holders \ {p}
            /\ IF p \in gr_lock_holders
               THEN Log(p, <<"gr_unlock">>) /\ UNCHANGED out
               ELSE /\ Log(p, <<"gr_unlock=0">>)
                    /\ out' = [out EXCEPT ![p] =
                                 Append(@, Msg("cannot unlock the group file"))]
       ELSE UNCHANGED <<gr_lock_holders, out, trace>>
    /\ UNCHANGED <<envVars, inputVars, stdin, faults, fileVars,
                   sgr_lock_holders, flagVars,
                   lockedVars, entVars, dbVars, passVars, ttyVars, status>>

\* if (gshadow_locked) sgr_unlock (); exit (status);
FailExitGshadow(p) ==
    /\ pc[p] = "fail_exit_gshadow"
    /\ pc' = [pc EXCEPT ![p] = "exited"]
    /\ IF gshadow_locked[p]
       THEN /\ sgr_lock_holders' = sgr_lock_holders \ {p}
            /\ IF p \in sgr_lock_holders
               THEN Log(p, <<"sgr_unlock">>) /\ UNCHANGED out
               ELSE /\ Log(p, <<"sgr_unlock=0">>)
                    /\ out' = [out EXCEPT ![p] =
                          Append(@, Msg("cannot unlock the shadow group file"))]
       ELSE UNCHANGED <<sgr_lock_holders, out, trace>>
    /\ UNCHANGED <<envVars, inputVars, stdin, faults, fileVars,
                   gr_lock_holders, flagVars,
                   lockedVars, entVars, dbVars, passVars, ttyVars, status>>

\* A faulty variant of Signal: the terminal modes are not put back.
Signal_without_stty(p) ==
    /\ handlers[p]
    /\ pc[p] \notin {"idle", "exited"}
    /\ status[p] # "killed"
    /\ UNCHANGED tty
    /\ CallFailExit(p, "killed", <<Msg("\n")>>)
    /\ UNCHANGED <<envVars, inputVars, stdin, faults, fileVars,
                   lockVars, flagVars, lockedVars,
                   entVars, dbVars, passVars, sgtty, handlers, trace>>

\* ------------------------------------------------------------ catch_signals
\* One of SIGHUP, SIGINT, SIGQUIT, SIGTERM, SIGTSTP arrives while
\* catch_signals is installed: STTY (0, &sgtty); putchar; fflush;
\* fail_exit (killed).  A process takes one such signal at most: a second
\* one would run the same rollback again.
Signal(p) ==
    /\ handlers[p]
    /\ pc[p] \notin {"idle", "exited"}
    /\ status[p] # "killed"
    /\ tty' = [tty EXCEPT ![p] = sgtty[p]]
    /\ CallFailExit(p, "killed", <<Msg("\n")>>)
    /\ UNCHANGED <<envVars, inputVars, stdin, faults, fileVars,
                   lockVars, flagVars, lockedVars,
                   entVars, dbVars, passVars, sgtty, handlers, trace>>

\* ------------------------------------------------------------ specification
Step(p) ==
    \/ ProcessFlags(p) \/ GetMyPwent(p) \/ GetGroup(p) \/ GetShadowGroup(p)
    \/ CheckPerms(p) \/ Operation(p)
    \/ CatchSignals(p) \/ Getpass(p) \/ ReadNew(p) \/ ReadAgain(p)
    \/ PwEncrypt(p) \/ Output(p)
    \/ GrLock(p) \/ SetGroupLocked(p) \/ SgrLock(p) \/ SetGshadowLocked(p)
    \/ GrOpen(p) \/ SgrOpen(p) \/ GrUpdate(p) \/ SgrUpdate(p)
    \/ GrClose(p) \/ SgrClose(p)
    \/ SgrUnlock(p) \/ ClearGshadowLocked(p) \/ GrUnlock(p)
    \/ ClearGroupLocked(p) \/ ExitSuccess(p)
    \/ FailExitGroup(p) \/ FailExitGshadow(p)
    \/ Signal(p)

Next == \E p \in Procs : Step(p)

Spec == Init /\ [][Next]_vars

\* Several gpasswd processes started at once on the group eng, whose only
\* admin is alice and which has no member yet.  Processes 1 and 2 run one of
\* the pairs below; every further process is root adding alice.  No library
\* call fails for an outside reason here: what is explored is the interleaving
\* of the processes' steps and the signal process 1 may take.
Root == [bywho |-> 0, pw_name |-> root_name]
Alice == [bywho |-> 1000, pw_name |-> alice]
Run(c, opts) == [caller |-> c, inv |-> [opts |-> opts, operands |-> <<"eng">>]]

ConcurrentRuns ==
    { <<Run(Root, <<Opt("a", alice)>>), Run(Alice, <<Opt("a", bob)>>)>>,
      <<Run(Alice, <<Opt("a", bob)>>), Run(Root, <<Opt("A", bob)>>)>>,
      <<Run(Root, <<>>), Run(Root, <<Opt("d", alice)>>)>> }

InitConcurrent ==
    /\ is_shadowgrp = TRUE
    /\ first_member_is_admin = FALSE
    /\ group_file = {OtherGroup, GroupRec("eng", "x", <<>>)}
    /\ gshadow_file = {OtherShadow, ShadowRec("eng", "s0", <<alice>>, <<>>)}
    /\ \E pair \in ConcurrentRuns :
          LET run(p) == IF p \in DOMAIN pair THEN pair[p]
                        ELSE Run(Root, <<Opt("a", alice)>>)
          IN /\ bywho = [p \in Procs |-> run(p).caller.bywho]
             /\ pw_name = [p \in Procs |-> run(p).caller.pw_name]
             /\ argv = [p \in Procs |-> run(p).inv]
    /\ stdin = [p \in Procs |-> <<"pw1", "pw1">>]
    /\ faults = 0
    /\ pc = [p \in Procs |-> "process_flags"]
    /\ InitLocals

SpecConcurrent == InitConcurrent /\ [][Next]_vars

\* gpasswd run several times in a row by root on the group eng: process p + 1
\* is started when process p has exited.  Processes 1 and 2 run one of the
\* pairs below (a user added and then removed again; a password set and then
\* stripped); every further process adds alice.  No call fails for an outside
\* reason.
SequenceRuns ==
    { <<Run(Root, <<Opt("a", n)>>), Run(Root, <<Opt("d", n)>>)>> :
         n \in {alice, bob} }
       \cup { <<Run(Root, <<>>), Run(Root, <<Opt("r", NoStr)>>)>> }

InitSequence ==
    /\ is_shadowgrp \in BOOLEAN
    /\ first_member_is_admin = FALSE
    /\ group_file \in GroupFiles \ {{OtherGroup}}
    /\ gshadow_file \in IF is_shadowgrp THEN GshadowFiles ELSE {{}}
    /\ \E pair \in SequenceRuns :
          LET run(p) == IF p \in DOMAIN pair THEN pair[p]
                        ELSE Run(Root, <<Opt("a", alice)>>)
          IN /\ bywho = [p \in Procs |-> run(p).caller.bywho]
             /\ pw_name = [p \in Procs |-> run(p).caller.pw_name]
             /\ argv = [p \in Procs |-> run(p).inv]
    /\ stdin = [p \in Procs |-> <<"pw1", "pw2", "pw2", "pw2">>]
    /\ faults = 0
    /\ pc = [p \in Procs |-> IF p = 1 THEN "process_flags" ELSE "idle"]
    /\ InitLocals

\* The shell starts the next command when the previous one has exited.
Start(p) ==
    /\ p > 1
    /\ pc[p] = "idle"
    /\ pc[p - 1] = "exited"
    /\ pc' = [pc EXCEPT ![p] = "process_flags"]
    /\ UNCHANGED <<envVars, inputVars, stdin, faults, fileVars, lockVars,
                   flagVars, lockedVars, entVars, dbVars, passVars, ttyVars,
                   status, out, trace>>

NextSequence == \E p \in Procs : Step(p) \/ Start(p)

SpecSequence == InitSequence /\ [][NextSequence]_vars

\* ------------------------------------------------------------------ claims
Has(p, e) == \E i \in 1..Len(trace[p]) : trace[p][i] = e
Printed(p, m) == \E i \in 1..Len(out[p]) : out[p][i] = m

Leaving == {"fail_exit", "fail_exit_gshadow", "exited"}
HoldsEveryLock(p) ==
    p \in gr_lock_holders /\ (is_shadowgrp => p \in sgr_lock_holders)
HoldsNoLock(p) == p \notin gr_lock_holders /\ p \notin sgr_lock_holders
Committed(p) ==
    Has(p, "gr_close(O_RDWR)") /\ (is_shadowgrp => Has(p, "sgr_close(O_RDWR)"))
FilesUntouched == group_file = group_file0 /\ gshadow_file = gshadow_file0
WriteEvents ==
    {"gr_open(O_RDWR)", "gr_open(O_RDWR)=0", "sgr_open(O_RDWR)",
     "sgr_open(O_RDWR)=0", "gr_update", "gr_update=0", "sgr_update",
     "sgr_update=0", "gr_close(O_RDWR)", "gr_close(O_RDWR)=0",
     "sgr_close(O_RDWR)", "sgr_close(O_RDWR)=0"}
NoWriteEvent(p) == \A i \in 1..Len(trace[p]) : trace[p][i] \notin WriteEvents
\* the positions of main () after check_perms () and before exit (E_SUCCESS)
PastCheckPerms ==
    {"operation", "isatty", "getpass_new", "read_new", "getpass_again",
     "read_again", "pw_encrypt", "output", "gr_lock", "group_locked",
     "sgr_lock", "gshadow_locked", "gr_open", "sgr_open", "gr_update",
     "sgr_update", "gr_close", "sgr_close", "sgr_unlock", "gshadow_unlocked",
     "gr_unlock", "group_unlocked", "nscd_flush_cache"}
Denial(p) == out'[p] = Append(out[p], Msg("Permission denied."))
                /\ pc'[p] = "fail_exit" /\ status'[p] = "1"

\* C1: from the moment the group record is loaded until the commit, a
\* running process holds the group lock, and the shadow lock too when a
\* shadow store is configured (lock, load, mutate, commit, unlock).
C1_LockHeldFromLoadToCommit ==
    \A p \in Procs :
       Has(p, "gr_locate") /\ ~Committed(p) /\ pc[p] \notin Leaving
          => HoldsEveryLock(p)

\* C2: at most one process holds the group lock and at most one the shadow
\* lock, and a process that has the stores open for writing, updates or
\* commits them holds the lock of every configured store.
C2_MutualExclusion ==
    /\ Cardinality(gr_lock_holders) <= 1
    /\ Cardinality(sgr_lock_holders) <= 1
    /\ \A p \in Procs :
          pc[p] \in {"gr_open", "sgr_open", "gr_update", "sgr_update",
                     "gr_close", "sgr_close"} => HoldsEveryLock(p)

C2_Witness ==
    \E p, q \in Procs :
       /\ p # q
       /\ pc[p] = "sgr_close" /\ HoldsEveryLock(p)
       /\ Has(q, "gr_lock=0")

C4_ShadowLockFailure ==
    \A p \in Procs :
       Has(p, "sgr_lock=0") =>
          /\ pc[p] \in Leaving /\ status[p] # "E_SUCCESS"
          /\ p \notin sgr_lock_holders
          /\ pc[p] \in {"fail_exit_gshadow", "exited"} =>
                p \notin gr_lock_holders /\ Has(p, "gr_unlock")
          /\ NoWriteEvent(p)
          /\ FilesUntouched

C4_Witness ==
    \E p \in Procs :
       /\ pc[p] = "exited" /\ Has(p, "gr_lock") /\ Has(p, "sgr_lock=0")
       /\ Has(p, "gr_unlock") /\ HoldsNoLock(p)

\* C5: gr_lock () called while another process holds the group lock fails
\* at once and sends the process to fail_exit (1) with the lock message;
\* the process then never calls sgr_lock (), writes nothing, and neither
\* that step nor its rollback takes the lock away from its holder.
C5_FailedLockStep(p) ==
    pc[p] = "gr_lock" /\ gr_lock_holders \ {p} # {} /\ trace'[p] # trace[p] =>
       /\ trace'[p] = Append(trace[p], "gr_lock=0")
       /\ pc'[p] = "fail_exit" /\ status'[p] = "1"
       /\ out'[p] = Append(out[p], Msg("cannot lock the group file"))
       /\ UNCHANGED <<lockVars, fileVars>>

C5_AfterFailedLock(p) ==
    Has(p, "gr_lock=0") =>
       /\ pc[p] \in Leaving /\ status[p] # "E_SUCCESS"
       /\ ~group_locked[p] /\ ~gshadow_locked[p] /\ HoldsNoLock(p)
       /\ ~Has(p, "sgr_lock") /\ ~Has(p, "sgr_lock=0")
       /\ ~Has(p, "gr_unlock") /\ ~Has(p, "gr_unlock=0")
       /\ NoWriteEvent(p)

C5_LockHeldByAnother ==
    /\ [](\A p \in Procs : C5_AfterFailedLock(p))
    /\ [][\A p \in Procs :
             /\ C5_FailedLockStep(p)
             /\ Has(p, "gr_lock=0") /\ pc'[p] # pc[p] =>
                   UNCHANGED <<lockVars, fileVars>>]_vars

C5_Witness ==
    \E p, q \in Procs :
       /\ p # q
       /\ pc[p] = "exited" /\ Has(p, "gr_lock=0")
       /\ q \in gr_lock_holders

\* C6: in shadow mode check_perms () lets a non-root caller through exactly
\* when its name is on sg_adm of the loaded or synthesized record, and lets
\* root through always; a denied caller gets "Permission denied." and
\* fail_exit (1), with no lock taken and no file changed.
C6_CheckPermsStep(p) ==
    is_shadowgrp /\ pc[p] = "check_perms" /\ pc'[p] # "check_perms" =>
       IF amroot(p) \/ is_on_list(sgent[p].sg_adm, myname[p])
       THEN pc'[p] = "operation" /\ UNCHANGED <<status, out>>
       ELSE Denial(p) /\ HoldsNoLock(p) /\ UNCHANGED <<lockVars, fileVars>>

C6_Reached(p) ==
    is_shadowgrp /\ ~amroot(p) =>
       /\ pc[p] \in PastCheckPerms \/ status[p] = "E_SUCCESS" =>
             is_on_list(sgent[p].sg_adm, myname[p])
       /\ (pc[p] \in Leaving /\ Has(p, "sgr_close(O_RDONLY)")
             /\ ~is_on_list(sgent[p].sg_adm, myname[p])) =>
             /\ Printed(p, Msg("Permission denied.")) /\ status[p] = "1"
             /\ HoldsNoLock(p) /\ NoWriteEvent(p) /\ FilesUntouched
             /\ ~Has(p, "gr_lock") /\ ~Has(p, "sgr_lock")

C6_ShadowAdminsOnly ==
    /\ [](\A p \in Procs : C6_Reached(p))
    /\ [][\A p \in Procs : C6_CheckPermsStep(p)]_vars

C6_Witness ==
    \E p \in Procs :
       /\ is_shadowgrp /\ ~amroot(p) /\ sgent[p] # NULL
       /\ is_on_list(sgent[p].sg_adm, myname[p])
       /\ ~is_on_list(sgent[p].sg_mem, myname[p])
       /\ pc[p] = "exited" /\ status[p] = "E_SUCCESS" /\ Committed(p)

\* C7: with no shadow store check_perms () lets a non-root caller through
\* only if the legacy flag is on and gr_mem is not empty and its first entry
\* is the caller's name; any other non-root caller is denied.
C7_Allowed(p) ==
    /\ first_member_is_admin
    /\ grent[p].gr_mem # <<>>
    /\ grent[p].gr_mem[1] = myname[p]

C7_CheckPermsStep(p) ==
    (~is_shadowgrp /\ ~amroot(p) /\ pc[p] = "check_perms"
        /\ pc'[p] # "check_perms") =>
       IF C7_Allowed(p)
       THEN pc'[p] = "operation" /\ UNCHANGED <<status, out>>
       ELSE Denial(p)

C7_Reached(p) ==
    (~is_shadowgrp /\ ~amroot(p)
        /\ (pc[p] \in PastCheckPerms \/ status[p] = "E_SUCCESS")) =>
       /\ first_member_is_admin
       /\ gr_locate(group_file0, group[p]).gr_mem # <<>>
       /\ gr_locate(group_file0, group[p]).gr_mem[1] = myname[p]

C7_FirstMemberOnly ==
    /\ [](\A p \in Procs : C7_Reached(p))
    /\ [][\A p \in Procs : C7_CheckPermsStep(p)]_vars

C7_Witness ==
    \E p \in Procs :
       /\ ~is_shadowgrp /\ first_member_is_admin /\ ~amroot(p)
       /\ grent[p] # NULL /\ Len(grent[p].gr_mem) >= 2
       /\ grent[p].gr_mem[2] = myname[p] /\ grent[p].gr_mem[1] # myname[p]
       /\ pc[p] = "exited" /\ status[p] = "1"
       /\ Printed(p, Msg("Permission denied."))

\* C8: when a non-root caller gives -A or -M the run never gets past
\* process_flags: no store is opened, locked or written; and when getopt
\* reaches that option the outcome is "Permission denied." and fail_exit (1),
\* whoever the caller is in the group.
C8_ReplaceReached(opts) ==
    \E i \in 1..Len(opts) :
       /\ opts[i].flag \in {"A", "M"}
       /\ \A j \in 1..(i - 1) :
             \/ opts[j].flag \in {"d", "g", "r", "R"}
             \/ opts[j].flag = "a" /\ getpwnam(opts[j].optarg)

C8_ReplaceNeedsRoot ==
    \A p \in Procs :
       (~amroot(p) /\ pc[p] # "idle"
           /\ \E i \in 1..Len(argv[p].opts) : argv[p].opts[i].flag \in {"A", "M"})
       => /\ pc[p] \in {"process_flags"} \cup Leaving
          /\ trace[p] = <<>>
          /\ HoldsNoLock(p) /\ ~group_locked[p] /\ ~gshadow_locked[p]
          /\ FilesUntouched
          /\ status[p] # "E_SUCCESS"
          /\ (C8_ReplaceReached(argv[p].opts) /\ pc[p] # "process_flags") =>
                out[p] = <<Msg("Permission denied.")>> /\ status[p] = "1"

C8_Witness ==
    \E p \in Procs :
       /\ ~amroot(p) /\ pc[p] = "exited"
       /\ argv[p].opts # <<>> /\ argv[p].opts[1].flag = "M"
       /\ \E sg \in gshadow_file :
             is_on_list(sg.sg_adm, pw_name[p]) /\ is_on_list(sg.sg_mem, pw_name[p])
       /\ out[p] = <<Msg("Permission denied.")>>

\* C9: when gr_locate () finds no such group the outcome is the not-found
\* one and not the permission-denied one, the shadow file is not read, no
\* shadow entry is made up and no file is changed.
C9_GroupNotFound ==
    \A p \in Procs :
       Has(p, "gr_locate=NULL") =>
          /\ pc[p] \in Leaving /\ status[p] # "E_SUCCESS"
          /\ Printed(p, Msg("group does not exist in the group file"))
          /\ ~Printed(p, Msg("Permission denied."))
          /\ sgent[p] = NULL
          /\ ~Has(p, "sgr_open(O_RDONLY)")
          /\ NoWriteEvent(p) /\ FilesUntouched

\* C10: in shadow mode a group found in /etc/group and missing from
\* /etc/gshadow still loads: sgent gets the group's name, the gr_passwd read
\* from /etc/group, a copy of gr_mem as members, and as admins the first
\* member when the legacy flag is on and there is one, else nobody; and
\* grent.gr_passwd becomes SHADOW_PASSWD_STRING.
C10_Synthesized(p) ==
    pc[p] = "check_perms" /\ Has(p, "sgr_locate=NULL") =>
       LET old == gr_locate(group_file0, group[p])
       IN /\ sgent[p].sg_name = group[p]
          /\ sgent[p].sg_passwd = old.gr_passwd
          /\ sgent[p].sg_mem = old.gr_mem
          /\ sgent[p].sg_adm = IF first_member_is_admin /\ old.gr_mem # <<>>
                              THEN <<old.gr_mem[1]>> ELSE <<>>
          /\ grent[p].gr_passwd = SHADOW_PASSWD_STRING
          /\ grent[p].gr_mem = old.gr_mem

C10_LoadStep(p) ==
    (pc[p] = "get_sgroup" /\ pc'[p] # "get_sgroup" /\ faults' = faults
        /\ sgr_locate(gshadow_file, group[p]) = NULL) =>
       pc'[p] = "check_perms" /\ Has(p, "sgr_locate=NULL")'

C10_SynthesizedShadowEntry ==
    /\ [](\A p \in Procs : C10_Synthesized(p))
    /\ [][\A p \in Procs : C10_LoadStep(p)]_vars

C10_Witness ==
    \E p \in Procs :
       /\ pc[p] = "check_perms" /\ Has(p, "sgr_locate=NULL")
       /\ first_member_is_admin /\ Len(sgent[p].sg_mem) >= 2
       /\ sgent[p].sg_adm = <<sgent[p].sg_mem[1]>>

Succeeded(p) == pc[p] = "exited" /\ status[p] = "E_SUCCESS"
Names(list) == {list[i] : i \in 1..Len(list)}
\* the target group's member lists, as stored before the run and now
StoredMembers(p) == gr_locate(group_file0, group[p]).gr_mem
WrittenMembers(p) == gr_locate(group_file, group[p]).gr_mem
WrittenShadowMembers(p) == sgr_locate(gshadow_file, group[p]).sg_mem

\* C11: after a successful -a user the gr_mem written to /etc/group is the
\* stored gr_mem with user appended when it was absent and the stored gr_mem
\* itself when it was present, and with /etc/gshadow in use the sg_mem
\* written there is that same list.
C11_AddMember ==
    \A p \in Procs :
       Succeeded(p) /\ flags[p].aflg =>
          LET L == StoredMembers(p)
              u == flags[p].user
              expected == IF u \in Names(L) THEN L ELSE Append(L, u)
          IN /\ WrittenMembers(p) = expected
             /\ is_shadowgrp => WrittenShadowMembers(p) = expected

\* C12: with /etc/gshadow in use, after any successful run the gr_mem written
\* to /etc/group and the sg_mem written to /etc/gshadow hold the same names.
C12_MemberListsInSync ==
    \A p \in Procs :
       is_shadowgrp /\ Succeeded(p) =>
          Names(WrittenMembers(p)) = Names(WrittenShadowMembers(p))

LockEvents == {"gr_lock", "gr_lock=0", "sgr_lock", "sgr_lock=0"}
NoLockEvent(p) == \A i \in 1..Len(trace[p]) : trace[p][i] \notin LockEvents
StoredShadowMembers(p) ==
    IF sgr_locate(gshadow_file0, group[p]) = NULL THEN StoredMembers(p)
    ELSE sgr_locate(gshadow_file0, group[p]).sg_mem

\* C13: -d user for a user on neither gr_mem nor (with /etc/gshadow) sg_mem
\* ends in fail_exit (1) with the not-a-member message before any lock is
\* asked for and with both files as they were; when the user is on one of
\* the lists the run goes on to the output, and what it then writes has the
\* user on neither list and every other name still there.
C13_DeleteStep(p) ==
    pc[p] = "operation" /\ flags[p].dflg /\ pc'[p] # "operation" =>
       LET u == flags[p].user
           onPrimary == u \in Names(grent[p].gr_mem)
           onShadow == is_shadowgrp /\ u \in Names(sgent[p].sg_mem)
       IN IF ~onPrimary /\ ~onShadow
          THEN /\ pc'[p] = "fail_exit" /\ status'[p] = "1"
               /\ out'[p] = Append(out[p], Msg("user is not a member"))
               /\ HoldsNoLock(p) /\ NoLockEvent(p)
               /\ UNCHANGED <<lockVars, fileVars, entVars>>
          ELSE /\ pc'[p] = "output"
               /\ Names(grent'[p].gr_mem) = Names(grent[p].gr_mem) \ {u}
               /\ is_shadowgrp =>
                     Names(sgent'[p].sg_mem) = Names(sgent[p].sg_mem) \ {u}

C13_Deleted(p) ==
    flags[p].dflg =>
       /\ Printed(p, Msg("user is not a member")) =>
             /\ pc[p] \in Leaving /\ status[p] = "1"
             /\ flags[p].user \notin Names(StoredMembers(p))
             /\ is_shadowgrp => flags[p].user \notin Names(StoredShadowMembers(p))
             /\ HoldsNoLock(p) /\ NoLockEvent(p) /\ NoWriteEvent(p)
             /\ FilesUntouched
       /\ Succeeded(p) =>
             /\ \/ flags[p].user \in Names(StoredMembers(p))
                \/ is_shadowgrp /\ flags[p].user \in Names(StoredShadowMembers(p))
             /\ Names(WrittenMembers(p)) = Names(StoredMembers(p)) \ {flags[p].user}
             /\ is_shadowgrp =>
                   Names(WrittenShadowMembers(p))
                      = Names(StoredShadowMembers(p)) \ {flags[p].user}

C13_DeleteMember ==
    /\ [](\A p \in Procs : C13_Deleted(p))
    /\ [][\A p \in Procs : C13_DeleteStep(p)]_vars

C13_Witness ==
    \E p \in Procs :
       /\ is_shadowgrp /\ flags[p].dflg /\ Succeeded(p)
       /\ flags[p].user \in Names(StoredMembers(p))
       /\ flags[p].user \notin Names(StoredShadowMembers(p))
       /\ flags[p].user \notin Names(WrittenMembers(p))

\* -a n by process 1 and then -d n by process 2, both successful, and no
\* further run started yet
AddedThenDeleted(n) ==
    /\ argv[1].opts = <<Opt("a", n)>> /\ Succeeded(1)
    /\ argv[2].opts = <<Opt("d", n)>> /\ Succeeded(2)
    /\ \A p \in Procs : p > 2 => pc[p] = "idle"

\* C14 as stated: -a n followed by -d n leaves the stored member lists with
\* the names they had before, for every stored list and every user n.
C14_AddThenDeleteRestores ==
    \A n \in PasswdNames :
       AddedThenDeleted(n) =>
          /\ Names(WrittenMembers(1)) = Names(StoredMembers(1))
          /\ is_shadowgrp =>
                Names(WrittenShadowMembers(1)) = Names(StoredShadowMembers(1))

\* C14 with its precondition: -a n followed by -d n leaves a stored member
\* list with the names it had before when n was not on that list; when n
\* was on it, the list ends up without n.
C14_AddThenDeleteOfNewName ==
    \A n \in PasswdNames :
       AddedThenDeleted(n) =>
          /\ Names(WrittenMembers(1)) = Names(StoredMembers(1)) \ {n}
          /\ is_shadowgrp =>
                Names(WrittenShadowMembers(1))
                   = Names(StoredShadowMembers(1)) \ {n}

C14_Witness ==
    /\ is_shadowgrp /\ AddedThenDeleted(bob)
    /\ bob \notin Names(StoredMembers(1))
    /\ bob \notin Names(StoredShadowMembers(1))
    /\ StoredMembers(1) # <<>>
    /\ Names(WrittenMembers(1)) = Names(StoredMembers(1))

ValidationFailed(p) ==
    \E i \in 1..Len(out[p]) : out[p][i].msg = "user does not exist"

\* C15: a run that reports a user name as not existing (-a, -A or -M) ends
\* in fail_exit (1) without having read, locked or written either file, and
\* -a with a name getpwnam () does not resolve is always such a run.
C15_ValidationFailure ==
    \A p \in Procs :
       /\ ValidationFailed(p) =>
             /\ pc[p] \in Leaving /\ status[p] = "1"
             /\ trace[p] = <<>>
             /\ HoldsNoLock(p) /\ ~group_locked[p] /\ ~gshadow_locked[p]
             /\ FilesUntouched
       /\ (pc[p] \notin {"idle", "process_flags"} /\ argv[p].opts # <<>>
              /\ argv[p].opts[1].flag = "a"
              /\ ~getpwnam(argv[p].opts[1].optarg)) => ValidationFailed(p)

C15_Witness ==
    \E p \in Procs :
       /\ pc[p] = "exited" /\ amroot(p)
       /\ argv[p].opts # <<>> /\ argv[p].opts[1].flag = "M"
       /\ out[p] = <<NotExistMsg(eve)>>
       /\ FilesUntouched

WrittenAdmins(p) == sgr_locate(gshadow_file, group[p]).sg_adm

\* C16: every name on a list written by a successful -a, -M or -A run is a
\* name getpwnam () resolves, whatever the length of the names given.
C16_CommittedNamesResolve ==
    \A p \in Procs :
       Succeeded(p) =>
          /\ flags[p].aflg => getpwnam(flags[p].user)
          /\ flags[p].Mflg =>
                /\ \A n \in Names(WrittenMembers(p)) : getpwnam(n)
                /\ is_shadowgrp =>
                      \A n \in Names(WrittenShadowMembers(p)) : getpwnam(n)
          /\ flags[p].Aflg => \A n \in Names(WrittenAdmins(p)) : getpwnam(n)

\* The comma separated tokens of a list as given, whole; nothing is counted
\* after a final comma.
RECURSIVE CommaTokens(_, _)
CommaTokens(s, start) ==
    IF start > Len(s) THEN <<>>
    ELSE LET end == strchr(s, start)
         IN IF end = 0 THEN <<SubSeq(s, start, Len(s))>>
            ELSE <<SubSeq(s, start, end - 1)>> \o CommaTokens(s, end + 1)

\* root gives one -M list, or one -A list with /etc/gshadow in use, and
\* process_flags has dealt with it
ListGiven(p) ==
    /\ amroot(p) /\ pc[p] \notin {"idle", "process_flags"}
    /\ Len(argv[p].opts) = 1
    /\ \/ argv[p].opts[1].flag = "M"
       \/ argv[p].opts[1].flag = "A" /\ is_shadowgrp

\* C17: is_valid_user_list accepts a list exactly when getpwnam () resolves
\* every token of it, and when it does not, it prints one "does not exist"
\* message for each token that does not resolve, in order.
C17_AllTokensValidated ==
    \A p \in Procs :
       ListGiven(p) =>
          LET tokens == CommaTokens(argv[p].opts[1].optarg, 1)
              missing == SelectSeq(tokens, LAMBDA n : ~getpwnam(n))
              accepted == flags[p].Mflg \/ flags[p].Aflg
          IN /\ accepted <=> missing = <<>>
             /\ ~accepted =>
                   out[p] = [i \in 1..Len(missing) |-> NotExistMsg(missing[i])]

PromptPcs == {"getpass_new", "read_new", "getpass_again", "read_again"}

\* C18: change_passwd prompts for at most RETRIES = 3 rounds; the third
\* mismatch ends in "Try again later" and fail_exit (1), and a run that used
\* up its rounds has asked for no lock and has left both files as they were.
C18_Rounds(p) ==
    /\ retries[p] <= RETRIES
    /\ pc[p] \in PromptPcs \cup {"pw_encrypt"} => retries[p] < RETRIES
    /\ Printed(p, Msg("Try again later")) <=> retries[p] = RETRIES
    /\ retries[p] = RETRIES =>
          /\ pc[p] \in Leaving /\ status[p] # "E_SUCCESS"
          /\ pass[p] = ""
          /\ HoldsNoLock(p) /\ NoLockEvent(p) /\ NoWriteEvent(p)
          /\ FilesUntouched

C18_LastMismatch(p) ==
    (pc[p] = "read_again" /\ retries[p] = RETRIES - 1 /\ pc'[p] # "read_again"
        /\ status'[p] # "killed"
        /\ stdin[p] # <<>> /\ Head(stdin[p]) # pass[p]) =>
       /\ pc'[p] = "fail_exit" /\ status'[p] = "1"
       /\ out'[p] = Append(out[p], Msg("Try again later"))
       /\ UNCHANGED <<lockVars, fileVars, entVars>>

C18_RetriesExhausted ==
    /\ [](\A p \in Procs : C18_Rounds(p))
    /\ [][\A p \in Procs : C18_LastMismatch(p)]_vars

C18_Witness ==
    \E p \in Procs :
       /\ pc[p] = "exited" /\ status[p] = "1"
       /\ Printed(p, Msg("Try again later"))
       /\ stdin[p] = <<"pw2", "pw2">>

\* C19: while change_passwd prompts, catch_signals is installed and holds
\* the terminal modes saved before the first prompt; a caught signal puts
\* those modes back, prints the newline and enters fail_exit, and the run
\* then ends with the terminal echoing, no lock held and no file changed.
C19_SignalStep(p) ==
    status'[p] = "killed" /\ status[p] # "killed" =>
       /\ handlers[p] /\ sgtty[p] = "echo"
       /\ tty'[p] = sgtty[p]
       /\ out'[p] = Append(out[p], Msg("\n"))
       /\ pc'[p] = "fail_exit"
       /\ UNCHANGED <<lockVars, fileVars>>

C19_Prompting(p) ==
    /\ pc[p] \in PromptPcs => handlers[p] /\ sgtty[p] = "echo"
    /\ status[p] = "killed" =>
          /\ pc[p] \in Leaving
          /\ tty[p] = "echo"
          /\ HoldsNoLock(p) /\ NoLockEvent(p) /\ NoWriteEvent(p)
          /\ FilesUntouched

C19_SignalWhilePrompting ==
    /\ [](\A p \in Procs : C19_Prompting(p))
    /\ [][\A p \in Procs : C19_SignalStep(p)]_vars

C19_Witness ==
    \E p \in Procs :
       /\ pc[p] = "exited" /\ status[p] = "killed"
       /\ pass[p] = "pw1" /\ stdin[p] = <<"pw2", "pw1">>
       /\ tty[p] = "echo"

Hashes == {pw_encrypt("pw1"), pw_encrypt("pw2")}
\* a password change that has got as far as writing the files
PasswordWritten(p) ==
    /\ Succeeded(p) /\ argv[p].opts = <<>>

\* C20: when the two entries of a round match, pw_encrypt (pass) goes into
\* sg_passwd with /etc/gshadow in use and into gr_passwd without it, the
\* other record is left as loaded, and pass is cleared in that same step,
\* before any lock is asked for or either file written.
C20_HashStep(p) ==
    pc[p] = "pw_encrypt" /\ pc'[p] = "output" =>
       /\ retries[p] < RETRIES
       /\ pass[p] \in {"pw1", "pw2"}
       /\ pass'[p] = ""
       /\ IF is_shadowgrp
          THEN /\ sgent'[p] = [sgent[p] EXCEPT !.sg_passwd = pw_encrypt(pass[p])]
               /\ grent'[p] = grent[p]
          ELSE /\ grent'[p] = [grent[p] EXCEPT !.gr_passwd = pw_encrypt(pass[p])]
               /\ sgent'[p] = sgent[p]
       /\ HoldsNoLock(p) /\ NoLockEvent(p) /\ NoWriteEvent(p)
       /\ UNCHANGED <<lockVars, fileVars>>

C20_Hashed(p) ==
    /\ ~NoLockEvent(p) \/ ~NoWriteEvent(p) => pass[p] = ""
    /\ pc[p] = "output" => pass[p] = ""
    /\ PasswordWritten(p) =>
          LET old == gr_locate(group_file0, group[p])
              new == gr_locate(group_file, group[p])
              oldsg == sgr_locate(gshadow_file0, group[p])
              newsg == sgr_locate(gshadow_file, group[p])
          IN IF is_shadowgrp
             THEN /\ newsg.sg_passwd \in Hashes
                  /\ new.gr_passwd = IF oldsg = NULL THEN SHADOW_PASSWD_STRING
                                     ELSE old.gr_passwd
                  /\ new.gr_mem = old.gr_mem
             ELSE /\ new.gr_passwd \in Hashes
                  /\ gshadow_file = gshadow_file0

C20_PasswordHashed ==
    /\ [](\A p \in Procs : C20_Hashed(p))
    /\ [][\A p \in Procs : C20_HashStep(p)]_vars

C20_Witness ==
    \E p \in Procs :
       /\ is_shadowgrp /\ PasswordWritten(p)
       /\ retries[p] = RETRIES - 1 /\ pass[p] = ""
       /\ sgr_locate(gshadow_file, group[p]).sg_passwd = pw_encrypt("pw1")
       /\ gr_locate(group_file, group[p]).gr_passwd = "h0"

\* the calls of update_group () and close_files () that write, failing
WriteFailures ==
    {"gr_update=0", "sgr_update=0", "gr_close(O_RDWR)=0", "sgr_close(O_RDWR)=0"}
UnlockEvents == {"gr_unlock", "gr_unlock=0", "sgr_unlock", "sgr_unlock=0"}
\* after a failed write the process has done nothing but unlock
AbortedAtOnce(p) ==
    \A i \in 1..Len(trace[p]) :
       trace[p][i] \in WriteFailures =>
          \A j \in (i + 1)..Len(trace[p]) : trace[p][j] \in UnlockEvents

\* C21: a process whose gr_update, sgr_update, gr_close or sgr_close failed
\* is in fail_exit (1) having made no further call but the unlocks, and holds
\* no lock once it has exited; after a failed gr_update, sgr_update or
\* gr_close both files are as they were, and after a failed sgr_close
\* /etc/group holds the updated entry while /etc/gshadow is as it was.
C21_WriteFailure ==
    \A p \in Procs :
       LET before == Has(p, "gr_update=0") \/ Has(p, "sgr_update=0")
                        \/ Has(p, "gr_close(O_RDWR)=0")
           between == Has(p, "sgr_close(O_RDWR)=0")
       IN /\ before \/ between =>
                /\ pc[p] \in Leaving /\ status[p] = "1"
                /\ AbortedAtOnce(p)
                /\ pc[p] = "exited" => HoldsNoLock(p)
          /\ before => FilesUntouched
          /\ between => /\ group_file = gr_update(group_file0, grent[p])
                        /\ gshadow_file = gshadow_file0

\* sgr_close failed after gr_close rewrote /etc/group with a changed entry
C21_Witness ==
    \E p \in Procs :
       /\ pc[p] = "exited" /\ Has(p, "sgr_close(O_RDWR)=0")
       /\ Has(p, "gr_unlock") /\ Has(p, "sgr_unlock")
       /\ group_file # group_file0
       /\ sgr_update(gshadow_file0, sgent[p]) # gshadow_file0

\* C22: a process that holds both locks and drops the /etc/group lock has
\* dropped the /etc/gshadow lock before, in close_files () and in fail_exit ()
\* alike, and a run that reached the unlocks of close_files () exits with
\* E_SUCCESS whatever the unlocks returned.
C22_ReleaseStep(p) ==
    /\ p \in gr_lock_holders /\ p \notin gr_lock_holders'
    /\ Has(p, "sgr_lock")
C22_ReverseUnlockOrder ==
    [][\A p \in Procs :
          /\ C22_ReleaseStep(p) => p \notin sgr_lock_holders
          /\ pc[p] \in {"sgr_unlock", "gshadow_unlocked", "gr_unlock",
                         "group_unlocked", "nscd_flush_cache"}
                /\ pc'[p] = "exited" => status'[p] = "E_SUCCESS"]_vars

\* C23: after a successful run with -M the gr_mem written to /etc/group, and
\* with /etc/gshadow in use the sg_mem written there, is the list parsed from
\* the -M argument and nothing else; after a successful run with -A the
\* sg_adm written is the list parsed from the -A argument, and without -M
\* both member lists are written as they were loaded; with -A and -M both
\* hold.
C23_Replace ==
    \A p \in Procs :
       Succeeded(p) =>
          /\ flags[p].Mflg =>
                /\ WrittenMembers(p) = comma_to_list(flags[p].members)
                /\ is_shadowgrp =>
                      WrittenShadowMembers(p) = comma_to_list(flags[p].members)
          /\ flags[p].Aflg =>
                /\ WrittenAdmins(p) = comma_to_list(flags[p].admins)
                /\ ~flags[p].Mflg =>
                      /\ WrittenMembers(p) = StoredMembers(p)
                      /\ WrittenShadowMembers(p) = StoredShadowMembers(p)

\* -A and -M in one run, each list dropping a name that was stored
C23_Witness ==
    \E p \in Procs :
       /\ Succeeded(p) /\ flags[p].Mflg /\ flags[p].Aflg
       /\ sgr_locate(gshadow_file0, group[p]) # NULL
       /\ Names(StoredMembers(p)) \ Names(WrittenMembers(p)) # {}
       /\ Names(sgr_locate(gshadow_file0, group[p]).sg_adm)
             \ Names(WrittenAdmins(p)) # {}

\* C24: when two processes have both exited with E_SUCCESS from -a runs on
\* the same group for different users, the gr_mem in /etc/group and the
\* sg_mem in /etc/gshadow hold both users.
C24_NoLostUpdate ==
    \A p, q \in Procs :
       /\ p # q /\ Succeeded(p) /\ Succeeded(q)
       /\ flags[p].aflg /\ flags[q].aflg
       /\ group[p] = group[q] /\ flags[p].user # flags[q].user
       => /\ {flags[p].user, flags[q].user} \subseteq Names(WrittenMembers(p))
          /\ {flags[p].user, flags[q].user}
                \subseteq Names(WrittenShadowMembers(p))

\* C25: with /etc/gshadow in use, when a caller other than root rewrites
\* /etc/group the caller is on the sg_adm that /etc/gshadow holds for the
\* group at that moment, which is the one it held when the caller took the
\* locks, and when that caller rewrites /etc/gshadow the group's sg_adm in
\* the file stays what it was.
C25_GroupWritten(p) ==
    ~Has(p, "gr_close(O_RDWR)") /\ Has(p, "gr_close(O_RDWR)")'
C25_GshadowWritten(p) ==
    ~Has(p, "sgr_close(O_RDWR)") /\ Has(p, "sgr_close(O_RDWR)")'
C25_AuthorizedAtCommit ==
    [][\A p \in Procs :
          is_shadowgrp /\ ~amroot(p) =>
             /\ C25_GroupWritten(p) =>
                   /\ sgr_locate(gshadow_file, group[p]) # NULL
                   /\ is_on_list(sgr_locate(gshadow_file, group[p]).sg_adm,
                                 myname[p])
             /\ C25_GshadowWritten(p) =>
                   /\ sgr_locate(gshadow_file, group[p]) # NULL
                   /\ sgr_locate(gshadow_file', group[p]).sg_adm
                         = sgr_locate(gshadow_file, group[p]).sg_adm]_vars

====
